---- MODULE Spec2Model ----
(***************************************************************************)
(* A model of nse_fetcher.py: the rate-limited, retrying HTTP client       *)
(* (fetch_url), the persistence store (save_option_data, log_fetch), and   *)
(* the per-symbol fetch with its batch drivers.                            *)
(*                                                                         *)
(* The methods are modelled on a fetcher object whose attributes           *)
(* (semaphore, session, years_to_check, nifty50_stocks, the two tables)    *)
(* are in place; the construction itself (__init__, load_config) is        *)
(* modelled apart, in SpecInit.                                            *)
(***************************************************************************)
EXTENDS Integers, Sequences, FiniteSets, TLC

VARIABLES
  \* ---- fetch_url under concurrent callers
  semaphore,    \* free slots of self.semaphore
  cpc,          \* caller -> position in fetch_url
  tries,        \* caller -> request attempts made by the current call
  lastAttempt   \* the attempt that ended last: its response and its effect

fetchVars == <<semaphore, cpc, tries, lastAttempt>>

VARIABLES
  \* ---- the store (the sqlite database at self.db_path)
  option_data,  \* the rows of table option_data
  fetch_log,    \* the rows of table fetch_log, in insertion order
  savedOnce,    \* option_data as it was after the latest single save
  lastOp,       \* the store operation applied last
  stats         \* what the latest get_stats call returned

storeVars == <<option_data, fetch_log, savedOnce, lastOp, stats>>

VARIABLES
  \* ---- what the run is given and what upstream can answer
  run_type,     \* "historical" (run_historical_fetch) or "daily" (run_daily_fetch)
  days,         \* the days argument of run_historical_fetch
  stocks,       \* the symbol list of the run
  now,          \* datetime.now() during the run
  listings,     \* the bodies the expiry-list endpoint can answer with
  probes,       \* the bodies the quote endpoint can answer a probe with
  pages         \* the bodies the quote endpoint can answer a data request with

worldVars == <<run_type, days, stocks, now, listings, probes, pages>>

VARIABLES
  \* ---- the batch driver
  bpc,          \* "loop", "symbol" (awaiting the symbol's fetch) or "done"
  i,            \* index into stocks of the current symbol
  results,      \* the result list
  history       \* per finished symbol: the exception that ended its fetch
                \* (Null if none) and the rows its requests had returned

batchVars == <<bpc, i, results, history>>

VARIABLES
  \* ---- the frame of fetch_stock_historical
  spc,               \* the request awaited: "idle", "years", "probe", "data"
  yearIdx,           \* position in years_to_check
  all_expiries,      \* (expiry string, year) pairs collected so far
  relevant_expiries, \* the pairs that passed the date filter
  eIdx,              \* position in relevant_expiries[:3]
  atm_strikes,       \* the strikes kept for the current expiry
  sIdx,              \* position in atm_strikes
  oIdx,              \* position in ['CE', 'PE']
  expiry_records,
  total_records

symVars == <<spc, yearIdx, all_expiries, relevant_expiries, eIdx, atm_strikes,
             sIdx, oIdx, expiry_records, total_records>>

VARIABLES
  \* ---- observations of the current symbol's fetch
  reqExpiries,  \* positions in relevant_expiries a request was issued for
  reqStrikes,   \* strikes a data request was issued for, current expiry
  dataReqs,     \* data requests issued for the current expiry
  probed,       \* the probe body the current expiry's strikes come from
  lastReq,      \* the request issued last
  fetchedRows   \* rows of the data pages received so far

obsVars == <<reqExpiries, reqStrikes, dataReqs, probed, lastReq, fetchedRows>>

VARIABLES
  \* ---- the construction of the fetcher
  ctor          \* position in NSEOptionsFetcher(...), what it was given,
                \* the attributes set so far, the exception raised

ctorVars == <<ctor>>

orchVars == <<worldVars, batchVars, symVars, obsVars, ctorVars>>

vars == <<fetchVars, storeVars, orchVars>>

----------------------------------------------------------------------------
\* Program constants

\* asyncio.Semaphore(3)
SemaphoreSlots == 3

\* @backoff.on_exception(..., max_tries=3)
MaxTries == 3

\* relevant_expiries[:3]
MaxExpiries == 3

\* sorted(atm_strikes)[:10]
MaxStrikes == 10

\* expiry_date - timedelta(days=90)
WindowDays == 90

\* fetch_stock_historical(symbol, days=2)
DailyDays == 2

\* run_historical_fetch(stocks=None, days=180)
DefaultDays == 180

\* Bounds of the model

\* concurrent callers of fetch_url
NumCallers == 4

\* longest data_list handed to save_option_data
MaxListLen == 2

\* rows of fetch_log beyond which log_fetch is not called directly
MaxLogLen == 3

\* length of self.years_to_check
NumYears == 2

\* strikes of the ladder the probe bodies are cut from
NumStrikes == 13

Callers == 1..NumCallers

\* None: a value absent from an upstream item, an argument not given
Null == "<NULL>"

NoAttempt == [effect |-> "none"]

\* self.semaphore = asyncio.Semaphore(3); no call has started
FetchIdle ==
  /\ semaphore = SemaphoreSlots
  /\ cpc = [c \in Callers |-> "idle"]
  /\ tries = [c \in Callers |-> 0]
  /\ lastAttempt = NoAttempt

\* A datetime: a calendar day and whether the time of day is past midnight.
Dt(day, tod) == [day |-> day, tod |-> tod]

NoRequest == [kind |-> "none"]

NoProbe == [data |-> "none"]

\* No call of fetch_stock_historical is active.
SymbolIdle ==
  /\ spc = "idle"
  /\ yearIdx = 0
  /\ all_expiries = <<>>
  /\ relevant_expiries = <<>>
  /\ eIdx = 0
  /\ atm_strikes = <<>>
  /\ sIdx = 0
  /\ oIdx = 0
  /\ expiry_records = 0
  /\ total_records = 0
  /\ reqExpiries = {}
  /\ reqStrikes = {}
  /\ dataReqs = 0
  /\ probed = NoProbe
  /\ lastReq = NoRequest
  /\ fetchedRows = 0

\* The default symbol list of load_config (lines 39-50)
Nifty50 ==
  << "RELIANCE", "TCS", "HDFCBANK", "INFY", "ICICIBANK",
     "SBIN", "BHARTIARTL", "KOTAKBANK", "ITC", "AXISBANK",
     "LT", "BAJFINANCE", "HDFC", "MARUTI", "HINDUNILVR",
     "ASIANPAINT", "HCLTECH", "WIPRO", "TATAMOTORS", "SUNPHARMA",
     "TITAN", "ULTRACEMCO", "NESTLEIND", "ONGC", "POWERGRID",
     "NTPC", "M&M", "BAJAJFINSV", "TATASTEEL", "INDUSINDBK",
     "TECHM", "JSWSTEEL", "ADANIENT", "GRASIM", "DIVISLAB",
     "CIPLA", "DRREDDY", "COALINDIA", "BRITANNIA", "EICHERMOT",
     "HINDALCO", "ADANIPORTS", "SHREECEM", "UPL", "VEDL",
     "BPCL", "HEROMOTOCO", "TATACONSUM", "SBILIFE", "BAJAJ-AUTO" >>

\* The default of config.get('years', [2022, 2023, 2024, 2025])
DefaultYears == <<2022, 2023, 2024, 2025>>

\* The attributes __init__ sets, in the order it sets them
Attributes ==
  <<"db_path", "headers", "nifty50_stocks", "years_to_check", "session",
    "semaphore">>

\* The 'stocks' value of the config file of the model
ConfigStocks == <<"A", "B">>

\* The list self.nifty50_stocks refers to: the default list of lines 39-50
\* or the list read from the config file.
StockList(ref) ==
  CASE ref = "default" -> Nifty50
    [] ref = "config" -> ConfigStocks
    [] ref = "unset" -> <<>>

\* The state of one construction: who constructs, the db_path given, the
\* file config.json and the database directory as they are on disk, the
\* attributes set so far (nifty50_stocks by the list it refers to), and the
\* exception that ended it (Null if none).
CtorState(pc, caller, db_path, config, dir_exists, attrs, stock_list, years, raised) ==
  [pc |-> pc, caller |-> caller, db_path |-> db_path, config |-> config,
   dir_exists |-> dir_exists, attrs |-> attrs, nifty50_stocks |-> stock_list,
   years_to_check |-> years, raised |-> raised]

\* config.json is not there
NoConfigFile == [present |-> FALSE, has_stocks |-> FALSE, has_years |-> FALSE]

\* The fetcher object with every attribute in place, as the methods use it.
Constructed ==
  ctor = CtorState("constructed", "direct", "data/nse_options.db", NoConfigFile,
                   TRUE, {Attributes[k] : k \in 1..Len(Attributes)}, "default",
                   DefaultYears, Null)

\* No batch driver is running.
OrchIdle ==
  /\ run_type = "historical"
  /\ days = 0
  /\ stocks = <<>>
  /\ now = Dt(0, 0)
  /\ listings = {}
  /\ probes = {}
  /\ pages = {}
  /\ bpc = "done"
  /\ i = 1
  /\ results = <<>>
  /\ history = <<>>
  /\ SymbolIdle

----------------------------------------------------------------------------
\* The store: tables option_data and fetch_log

\* FH_STRIKE_PRICE as it arrives: a JSON number, a numeric string, or absent.
StrikeInt(v) == [t |-> "int", v |-> v]
StrikeStr(v) == [t |-> "str", v |-> v]
StrikeNone == [t |-> "none", v |-> 0]

Timestamps == {"01-DEC-2025", "02-DEC-2025"}

\* An upstream quote row, by its FH_* keys; rest stands for the thirteen
\* nullable value columns (FH_OPENING_PRICE ... FH_UNDERLYING_VALUE).
Item(strike, ts, rest) ==
  [FH_EXPIRY_DT |-> "25-DEC-2025", FH_STRIKE_PRICE |-> strike,
   FH_OPTION_TYPE |-> "CE", FH_TIMESTAMP |-> ts, rest |-> rest]

\* The upstream rows of the model: one contract on two trade dates with two
\* versions of its values, the same contract with its strike as a string,
\* and a row without a strike.
Items ==
  { Item(StrikeInt(100), ts, rest) : ts \in Timestamps, rest \in {1, 2} }
    \cup { Item(StrikeStr(100), "01-DEC-2025", 2),
           Item(StrikeNone, "01-DEC-2025", 1) }

StoreSymbols == {"A", "B"}

\* Column strike_price has REAL affinity: a number and a numeric string
\* are stored as the same REAL; None stays NULL.
RealAffinity(x) == IF x.t = "none" THEN -1 ELSE x.v

\* The parameter tuple of the INSERT, as the columns store it.
RowOf(item, symbol) ==
  [symbol |-> symbol,
   expiry_date |-> item.FH_EXPIRY_DT,
   strike_price |-> RealAffinity(item.FH_STRIKE_PRICE),
   option_type |-> item.FH_OPTION_TYPE,
   timestamp |-> item.FH_TIMESTAMP,
   rest |-> item.rest]

\* UNIQUE(symbol, expiry_date, strike_price, option_type, timestamp)
NaturalKey(r) ==
  <<r.symbol, r.expiry_date, r.strike_price, r.option_type, r.timestamp>>

\* The five key columns are declared NOT NULL.
ViolatesNotNull(item, symbol) ==
  \/ symbol = Null
  \/ item.FH_EXPIRY_DT = Null
  \/ item.FH_STRIKE_PRICE.t = "none"
  \/ item.FH_OPTION_TYPE = Null
  \/ item.FH_TIMESTAMP = Null

\* Faulty variant: the table is created without the UNIQUE constraint.
KeyExists_NoConstraint(table, r) == FALSE

\* The UNIQUE constraint finds a conflicting row.
KeyExists(table, r) == \E q \in table : NaturalKey(q.row) = NaturalKey(r)

\* Faulty variant: INSERT OR REPLACE: a row with the same key is deleted and the
\* new one is inserted under a new id.
InsertOrIgnore_Replace(table, item, symbol) ==
  LET r == RowOf(item, symbol) IN
    IF ViolatesNotNull(item, symbol)
      THEN table
      ELSE {q \in table : NaturalKey(q.row) # NaturalKey(r)}
             \cup {[id |-> Cardinality(table) + 1, row |-> r]}

\* INSERT OR IGNORE: a row that violates NOT NULL or UNIQUE is skipped;
\* an inserted row gets the next AUTOINCREMENT id (rows are never deleted).
InsertOrIgnore(table, item, symbol) ==
  LET r == RowOf(item, symbol) IN
    IF ViolatesNotNull(item, symbol) \/ KeyExists(table, r)
      THEN table
      ELSE table \cup {[id |-> Cardinality(table) + 1, row |-> r]}

\* save_option_data: the loop over data_list, then commit.
RECURSIVE SaveRows(_, _, _)
SaveRows(table, data_list, symbol) ==
  IF data_list = <<>>
    THEN table
    ELSE SaveRows(InsertOrIgnore(table, Head(data_list), symbol),
                  Tail(data_list), symbol)

\* get_stats has not been called.
NoStats == [total_records |-> 0, unique_symbols |-> 0, date_range |-> <<>>]

\* _init_database on a fresh file: both tables exist and are empty.
StoreEmpty ==
  /\ option_data = {}
  /\ fetch_log = <<>>
  /\ savedOnce = {}
  /\ lastOp = "none"
  /\ stats = NoStats

\* The lists save_option_data is called with
DataLists == UNION { [1..n -> Items] : n \in 0..MaxListLen }

\* save_option_data(data_list, symbol)
SaveOptionData(data_list, symbol) ==
  /\ option_data' = SaveRows(option_data, data_list, symbol)
  /\ savedOnce' = option_data'
  /\ lastOp' = "save"
  /\ UNCHANGED <<fetch_log, stats, fetchVars, orchVars>>

\* save_option_data(data_list, symbol) called twice in a row
SaveOptionDataTwice(data_list, symbol) ==
  LET once == SaveRows(option_data, data_list, symbol) IN
    /\ data_list # <<>>
    /\ option_data' = SaveRows(once, data_list, symbol)
    /\ savedOnce' = once
    /\ lastOp' = "save_twice"
    /\ UNCHANGED <<fetch_log, stats, fetchVars, orchVars>>

NextStore ==
  \E data_list \in DataLists, symbol \in StoreSymbols :
    \/ SaveOptionData(data_list, symbol)
    \/ SaveOptionDataTwice(data_list, symbol)

InitStore == FetchIdle /\ StoreEmpty /\ OrchIdle /\ Constructed

SpecStore == InitStore /\ [][NextStore]_vars

\* The stored rows, without the surrogate id
StoredRows(table) == {q.row : q \in table}

\* C4: calling save_option_data twice with the same sequence leaves table
\* option_data as one call leaves it, and no two stored rows ever share the
\* natural key (symbol, expiry_date, strike_price, option_type, trade date).
C4_UpsertIdempotent ==
  /\ option_data = savedOnce
  /\ \A q1, q2 \in option_data :
       NaturalKey(q1.row) = NaturalKey(q2.row) => q1 = q2
  /\ \A q1, q2 \in option_data : q1.id = q2.id => q1 = q2

C4_Witness ==
  /\ lastOp = "save_twice"
  /\ Cardinality(option_data) >= 2
  /\ \E q \in option_data : q.row.rest = 2

----------------------------------------------------------------------------
\* log_fetch and get_stats

\* The parameter tuple of the INSERT into fetch_log
LogRow(type, symbol, status, records, error) ==
  [run_type |-> type, symbol |-> symbol, status |-> status,
   records_fetched |-> records, error_message |-> error]

\* log_fetch(run_type, symbol, status, records, error): one row is appended
\* (AUTOINCREMENT id: fetch_log is a sequence in insertion order).
LogFetch(entry) ==
  /\ fetch_log' = Append(fetch_log, entry)
  /\ lastOp' = "log_fetch"
  /\ UNCHANGED <<option_data, savedOnce, stats, fetchVars, orchVars>>

\* A trade date that is earlier than those of Timestamps and whose text
\* sorts after them
NovTimestamp == "15-NOV-2025"

\* The text of a trade date as the TEXT column holds it: its characters,
\* as code points.
Chars(ts) ==
  CASE ts = "01-DEC-2025" -> <<48, 49, 45, 68, 69, 67, 45, 50, 48, 50, 53>>
    [] ts = "02-DEC-2025" -> <<48, 50, 45, 68, 69, 67, 45, 50, 48, 50, 53>>
    [] ts = "15-NOV-2025" -> <<49, 53, 45, 78, 79, 86, 45, 50, 48, 50, 53>>

\* The BINARY collation of a TEXT column: the first differing character
\* decides.
RECURSIVE CharsLE(_, _)
CharsLE(a, b) ==
  IF a = <<>> THEN TRUE
  ELSE IF b = <<>> THEN FALSE
  ELSE IF Head(a) # Head(b) THEN Head(a) < Head(b)
  ELSE CharsLE(Tail(a), Tail(b))

TextLE(s, t) == CharsLE(Chars(s), Chars(t))

\* SELECT COUNT(DISTINCT symbol) FROM option_data
CountSymbols(table) == Cardinality({q.row.symbol : q \in table})

\* SELECT MIN(timestamp), MAX(timestamp) FROM option_data, on a table with
\* rows: the least and the greatest text.
MinTimestamp(table) ==
  CHOOSE s \in {q.row.timestamp : q \in table} :
    \A t \in {q.row.timestamp : q \in table} : TextLE(s, t)

MaxTimestamp(table) ==
  CHOOSE s \in {q.row.timestamp : q \in table} :
    \A t \in {q.row.timestamp : q \in table} : TextLE(t, s)

\* The value get_stats returns. result[0] is None on an empty table (and
\* an empty text is falsy too): "No data"; else f"{min} to {max}".
GetStats(table) ==
  [total_records |-> Cardinality(table),
   unique_symbols |-> CountSymbols(table),
   date_range |-> IF table = {} \/ MinTimestamp(table) = ""
                    THEN <<"No data">>
                    ELSE <<MinTimestamp(table), "to", MaxTimestamp(table)>>]

\* get_stats()
GetStatsCall ==
  /\ stats' = GetStats(option_data)
  /\ lastOp' = "get_stats"
  /\ UNCHANGED <<option_data, fetch_log, savedOnce, fetchVars, orchVars>>

\* ---- writes of quote rows over three trade dates, then get_stats
StatsItems ==
  { Item(StrikeInt(100), ts, 1) : ts \in Timestamps \cup {NovTimestamp} }

StatsLists == UNION { [1..n -> StatsItems] : n \in 1..MaxListLen }

NextStats ==
  \/ \E data_list \in StatsLists, symbol \in StoreSymbols :
       SaveOptionData(data_list, symbol)
  \/ GetStatsCall

SpecStats == InitStore /\ [][NextStats]_vars

\* The calendar date a trade date string names ("%d-%b-%Y"), as a number
\* that grows with the date.
TradeDate(ts) ==
  CASE ts = "01-DEC-2025" -> 2025 * 10000 + 12 * 100 + 1
    [] ts = "02-DEC-2025" -> 2025 * 10000 + 12 * 100 + 2
    [] ts = "15-NOV-2025" -> 2025 * 10000 + 11 * 100 + 15

TradeDates(table) == {q.row.timestamp : q \in table}

\* C12: what get_stats returned is the number of stored rows, the number of
\* distinct symbols, and the earliest and the latest trade date of the
\* stored rows by the calendar; "No data" exactly on an empty table.
C12_StatsOfStore ==
  lastOp = "get_stats" =>
    /\ stats.total_records = Cardinality(option_data)
    /\ stats.unique_symbols = Cardinality({q.row.symbol : q \in option_data})
    /\ stats.date_range = <<"No data">> <=> option_data = {}
    /\ option_data # {} =>
         /\ Len(stats.date_range) = 3
         /\ stats.date_range[1] \in TradeDates(option_data)
         /\ stats.date_range[3] \in TradeDates(option_data)
         /\ \A t \in TradeDates(option_data) :
              /\ TradeDate(stats.date_range[1]) <= TradeDate(t)
              /\ TradeDate(t) <= TradeDate(stats.date_range[3])

\* The part of C12 the code keeps: the counts and the sentinel.
C12_CountsAndSentinel ==
  lastOp = "get_stats" =>
    /\ stats.total_records = Cardinality(option_data)
    /\ stats.unique_symbols = Cardinality({q.row.symbol : q \in option_data})
    /\ stats.date_range = <<"No data">> <=> option_data = {}

----------------------------------------------------------------------------
\* fetch_url

\* What one request attempt can meet: a response with a status and a body,
\* or an exception raised by session.get (connection error, timeout).
Responses ==
  { [kind |-> "response", status |-> 200, body |-> "json"],
    [kind |-> "response", status |-> 200, body |-> "badjson"],
    [kind |-> "response", status |-> 204, body |-> "json"],
    [kind |-> "response", status |-> 500, body |-> "json"],
    [kind |-> "exception", exc |-> "ClientError"],
    [kind |-> "exception", exc |-> "TimeoutError"] }

\* The exception classes the backoff decorator retries.
RetriedExceptions == {"ClientError", "TimeoutError"}

\* Faulty variant: response.raise_for_status(): a non-200 status raises.
AttemptOutcome_RaiseForStatus(resp) ==
  IF resp.kind = "exception"
    THEN [kind |-> "raise", exc |-> resp.exc]
  ELSE IF resp.status = 200
    THEN IF resp.body = "json"
           THEN [kind |-> "return", value |-> "JSON"]
           ELSE [kind |-> "raise", exc |-> "ValueError"]
  ELSE [kind |-> "raise", exc |-> "ClientError"]

\* The body of fetch_url for one attempt: what it returns or raises.
\*   status == 200 -> return await response.json()  (raises on a bad body)
\*   else          -> warning, return None
\*   except Exception: log, raise
AttemptOutcome(resp) ==
  IF resp.kind = "exception"
    THEN [kind |-> "raise", exc |-> resp.exc]
  ELSE IF resp.status = 200
    THEN IF resp.body = "json"
           THEN [kind |-> "return", value |-> "JSON"]
           ELSE [kind |-> "raise", exc |-> "ValueError"]
  ELSE [kind |-> "return", value |-> "None"]

\* Faulty variant: max_tries counted as the number of retries, not of attempts.
GivesUp_CountsRetries(exc, n) == exc \notin RetriedExceptions \/ n >= MaxTries + 1

\* backoff.on_exception: an exception of a retried class is retried while
\* fewer than max_tries attempts were made; anything else propagates.
GivesUp(exc, n) == exc \notin RetriedExceptions \/ n >= MaxTries

\* A caller invokes fetch_url: the decorator starts the first attempt.
\* (tries is the decorator's per-call counter: it is 0 outside a call.)
CallFetchUrl(c) ==
  /\ cpc[c] = "idle"
  /\ cpc' = [cpc EXCEPT ![c] = "acquire"]
  /\ UNCHANGED <<semaphore, tries, lastAttempt>>
  /\ UNCHANGED <<storeVars, orchVars>>

\* Faulty variant: the request is sent without looking at the semaphore.
SlotFree_Always == TRUE

\* Semaphore.locked() is false: a slot is free.
SlotFree == semaphore > 0

\* async with self.semaphore: ... self.session.get(url, timeout=30)
AcquireAndSend(c) ==
  /\ cpc[c] = "acquire"
  /\ SlotFree
  /\ semaphore' = semaphore - 1
  /\ tries' = [tries EXCEPT ![c] = @ + 1]
  /\ cpc' = [cpc EXCEPT ![c] = "request"]
  /\ UNCHANGED lastAttempt
  /\ UNCHANGED <<storeVars, orchVars>>

\* Faulty variant: the slot is released by hand after the response was read,
\* so an exception leaves the block without releasing.
SlotsReleased_NotOnRaise(out) == IF out.kind = "raise" THEN 0 ELSE 1

\* async with self.semaphore: __aexit__ releases the slot however the block
\* is left (return value, return None, exception).
SlotsReleased(out) == 1

\* The attempt ends: the slot is released on every exit path of the
\* async with block; then the call returns, raises, or backs off.
AttemptEnds(c) ==
  /\ cpc[c] = "request"
  /\ \E resp \in Responses :
       LET out == AttemptOutcome(resp) IN
         /\ semaphore' = semaphore + SlotsReleased(out)
         /\ IF out.kind = "return"
              THEN /\ cpc' = [cpc EXCEPT ![c] = "idle"]
                   /\ tries' = [tries EXCEPT ![c] = 0]
                   /\ lastAttempt' = [effect |-> "returned", value |-> out.value,
                                      resp |-> resp, tries |-> tries[c]]
            ELSE IF GivesUp(out.exc, tries[c])
              THEN /\ cpc' = [cpc EXCEPT ![c] = "idle"]
                   /\ tries' = [tries EXCEPT ![c] = 0]
                   /\ lastAttempt' = [effect |-> "raised", exc |-> out.exc,
                                      resp |-> resp, tries |-> tries[c]]
            ELSE /\ cpc' = [cpc EXCEPT ![c] = "backoff"]
                 /\ UNCHANGED tries
                 /\ lastAttempt' = [effect |-> "retry", exc |-> out.exc,
                                    resp |-> resp, tries |-> tries[c]]
  /\ UNCHANGED <<storeVars, orchVars>>

\* The backoff.expo wait is over: the decorator calls the body again.
BackoffElapsed(c) ==
  /\ cpc[c] = "backoff"
  /\ cpc' = [cpc EXCEPT ![c] = "acquire"]
  /\ UNCHANGED <<semaphore, tries, lastAttempt>>
  /\ UNCHANGED <<storeVars, orchVars>>

NextFetch ==
  \E c \in Callers :
    \/ CallFetchUrl(c)
    \/ AcquireAndSend(c)
    \/ AttemptEnds(c)
    \/ BackoffElapsed(c)

InitFetch == FetchIdle /\ StoreEmpty /\ OrchIdle /\ Constructed

SpecFetch == InitFetch /\ [][NextFetch]_vars

InFlight == {c \in Callers : cpc[c] = "request"}

\* C1: at most 3 requests are in flight in every reachable state, and while
\* 3 are in flight a caller that has arrived cannot issue its request: it
\* waits until one of them has finished.
C1_AtMostThreeInFlight ==
  /\ Cardinality(InFlight) <= 3
  /\ Cardinality(InFlight) = 3 =>
       \A c \in Callers : cpc[c] = "acquire" => ~ ENABLED AcquireAndSend(c)

C1_Witness ==
  /\ Cardinality(InFlight) = 3
  /\ \E c \in Callers : cpc[c] = "acquire"

\* C2: a call whose attempts all fail transiently (network error, timeout)
\* makes exactly 3 attempts: the error propagates at the third attempt and
\* not before, and no caller ever makes a fourth attempt.
C2_ExactlyThreeAttempts ==
  /\ \A c \in Callers : tries[c] <= 3
  /\ lastAttempt.effect \in {"raised", "retry"} =>
       (lastAttempt.exc \in {"ClientError", "TimeoutError"} =>
          /\ lastAttempt.effect = "raised" <=> lastAttempt.tries = 3
          /\ lastAttempt.effect = "retry" <=> lastAttempt.tries < 3)

C2_Witness ==
  /\ lastAttempt.effect = "raised"
  /\ lastAttempt.exc = "TimeoutError"
  /\ lastAttempt.tries = 3

InBackoff == {c \in Callers : cpc[c] = "backoff"}

\* C20: a slot is held exactly by the attempts in flight: an attempt that
\* ended (with a value, with None, or with an exception) has given its slot
\* back, a call waiting in backoff holds none, so when no call is active all
\* 3 slots are free, and while fewer than 3 attempts are in flight a caller
\* at the semaphore can send, however many calls wait in backoff.
C20_SlotHeldOnlyDuringAttempt ==
  /\ semaphore = 3 - Cardinality(InFlight)
  /\ (\A c \in Callers : cpc[c] = "idle") => semaphore = 3
  /\ \A c \in Callers :
       (cpc[c] = "acquire" /\ Cardinality(InFlight) < 3) =>
         ENABLED AcquireAndSend(c)

C20_Witness ==
  /\ Cardinality(InBackoff) = 3
  /\ \E c \in Callers : cpc[c] = "request"
  /\ lastAttempt.effect = "retry"
  /\ semaphore = 2

----------------------------------------------------------------------------
\* fetch_url as the sequential caller sees it

\* What upstream does at each of the attempts a call can make.
AttemptRuns == [1..MaxTries -> Responses]

\* The decorated fetch_url: attempts are made until one returns or the
\* decorator gives up; n is the number of the attempt being made.
RECURSIVE FetchUrlRun(_, _)
FetchUrlRun(run, n) ==
  LET out == AttemptOutcome(run[n]) IN
    IF out.kind = "return" THEN out
    ELSE IF GivesUp(out.exc, n) THEN out
    ELSE FetchUrlRun(run, n + 1)

\* Every way a fetch_url call can end.
FetchUrlResults == { FetchUrlRun(run, 1) : run \in AttemptRuns }

----------------------------------------------------------------------------
\* Dates

DtLE(a, b) == a.day < b.day \/ (a.day = b.day /\ a.tod <= b.tod)

DtLT(a, b) == DtLE(a, b) /\ a # b

DtMin(a, b) == IF DtLE(a, b) THEN a ELSE b

DtMax(a, b) == IF DtLE(a, b) THEN b ELSE a

\* dt - timedelta(days=n)
MinusDays(dt, n) == Dt(dt.day - n, dt.tod)

\* An expiry string of the listing: a well-formed "%d-%b-%Y" date, or text
\* that strptime rejects.
ExpStr(day) == [ok |-> TRUE, day |-> day]

BadExpStr == [ok |-> FALSE, day |-> 0]

\* datetime.strptime(expiry_str, "%d-%b-%Y") succeeds
Parses(expiry_str) == expiry_str.ok

\* datetime.strptime(expiry_str, "%d-%b-%Y"): midnight of that day
Strptime(expiry_str) == Dt(expiry_str.day, 0)

\* dt.strftime("%d-%m-%Y"): the calendar day, the time of day is dropped
Strftime(dt) == dt.day

----------------------------------------------------------------------------
\* Expiry and strike discovery

\* self.years_to_check, by position
YearAt(k) == 2021 + k

\* days of one call of fetch_stock_historical: run_historical_fetch passes
\* its days, fetch_daily_data passes days=2
CallDays == IF run_type = "daily" THEN DailyDays ELSE days

\* end_date = datetime.now(); start_date = end_date - timedelta(days=days)
EndDate == now

StartDate == MinusDays(EndDate, CallDays)

\* Faulty variant: the try around strptime is missing: a bad date string escapes.
ParseErrorEscapes_NoTry(all) == \E k \in 1..Len(all) : ~ Parses(all[k].expiry_str)

\* try: strptime ... except: pass -- no parse error leaves the filter loop.
ParseErrorEscapes(all) == FALSE

\* Faulty variant: the comparison with start_date is dropped.
InRange_Always(expiry_date, start_date) == TRUE

\* if expiry_date >= start_date
InRange(expiry_date, start_date) == DtLE(start_date, expiry_date)

\* The filter loop over all_expiries: (expiry_str, year, expiry_date)
\* triples, in listing order; strings that do not parse are passed over.
RECURSIVE FilterExpiries(_, _)
FilterExpiries(all, start_date) ==
  IF all = <<>> THEN <<>>
  ELSE
    LET e == Head(all)
        rest == FilterExpiries(Tail(all), start_date)
    IN IF Parses(e.expiry_str) /\ InRange(Strptime(e.expiry_str), start_date)
         THEN <<[expiry_str |-> e.expiry_str, year |-> e.year,
                 expiry_date |-> Strptime(e.expiry_str)]>> \o rest
         ELSE rest

\* Faulty variant: fetch_end is the expiry date, with neither min nor the test
\* against datetime.now().
FetchEnd_NoClamp(expiry_date) == expiry_date

\* Faulty variant: the loop runs over all of relevant_expiries.
Processed_All(relevant) == relevant

\* relevant_expiries[:3]
Processed(relevant) == SubSeq(relevant, 1, IF Len(relevant) < MaxExpiries
                                              THEN Len(relevant) ELSE MaxExpiries)

\* The date range of one expiry.
\*   fetch_end = min(expiry_date, end_date)
\*   fetch_start = max(expiry_date - timedelta(days=90), start_date)
\*   if fetch_end > datetime.now(): fetch_end = datetime.now()
FetchEnd(expiry_date) ==
  LET fe == DtMin(expiry_date, EndDate) IN
    IF DtLT(now, fe) THEN now ELSE fe

FetchStart(expiry_date) == DtMax(MinusDays(expiry_date, WindowDays), StartDate)

\* if fetch_start >= fetch_end: continue
Degenerate(expiry_date) == DtLE(FetchEnd(expiry_date), FetchStart(expiry_date))

\* The first position after k in relevant_expiries[:3] whose date range is
\* not degenerate; 0 if there is none.
RECURSIVE NextExpiry(_, _)
NextExpiry(relevant, k) ==
  IF k + 1 > Len(Processed(relevant)) THEN 0
  ELSE IF Degenerate(relevant[k + 1].expiry_date) THEN NextExpiry(relevant, k + 1)
  ELSE k + 1

\* sorted(...)
RECURSIVE Sorted(_)
Sorted(S) ==
  IF S = {} THEN <<>>
  ELSE LET m == CHOOSE x \in S : \A y \in S : x <= y
       IN <<m>> \o Sorted(S \ {m})

\* 0.9 * underlying_value <= s <= 1.1 * underlying_value
NearTheMoney(s, underlying_value) ==
  9 * underlying_value <= 10 * s /\ 10 * s <= 11 * underlying_value

\* Faulty variant: the sorted strikes are not cut.
FirstStrikes_NoCut(seq) == seq

\* [:10]
FirstStrikes(seq) == SubSeq(seq, 1, IF Len(seq) < MaxStrikes THEN Len(seq)
                                     ELSE MaxStrikes)

\* The strikes kept for one expiry, from the probe's strike set and the
\* FH_UNDERLYING_VALUE of its first row.
AtmStrikes(strikes, underlying_value) ==
  LET atm == IF underlying_value > 0
               THEN {st \in strikes : NearTheMoney(st, underlying_value)}
               ELSE strikes
  IN FirstStrikes(Sorted(atm))

\* for option_type in ['CE', 'PE']
OptionTypes == <<"CE", "PE">>

----------------------------------------------------------------------------
\* The audit log

\* log_fetch('historical', symbol, status, records, error), called by
\* fetch_stock_historical when it ends
HistoricalEntry(symbol, status, records, error) ==
  [run_type |-> "historical", symbol |-> symbol, status |-> status,
   records_fetched |-> records, error_message |-> error]

\* Faulty variant: the daily entry is written with a status of its own.
DailyEntry_Done(symbol, records) ==
  [run_type |-> "daily", symbol |-> symbol, status |-> "DONE",
   records_fetched |-> records, error_message |-> Null]

\* log_fetch('daily', symbol, 'SUCCESS', records), called by
\* fetch_daily_data after fetch_stock_historical has returned records
DailyEntry(symbol, records) ==
  [run_type |-> "daily", symbol |-> symbol, status |-> "SUCCESS",
   records_fetched |-> records, error_message |-> Null]

\* The entries one symbol's fetch appends: fetch_stock_historical catches
\* every exception itself and returns a count, so fetch_daily_data always
\* takes its success path.
SymbolLogEntries(symbol, status, records, error) ==
  IF run_type = "daily"
    THEN <<HistoricalEntry(symbol, status, records, error),
           DailyEntry(symbol, records)>>
    ELSE <<HistoricalEntry(symbol, status, records, error)>>

----------------------------------------------------------------------------
\* fetch_stock_historical, fetch_daily_data and the batch drivers

\* The bodies fetch_url hands back when it returns None
NoListing == [has |-> FALSE, dts |-> <<>>]

NoData == [data |-> "missing"]

\* The expiry-list request for the year at position k
ExpiriesRequest(k) == [kind |-> "expiries", year |-> YearAt(k)]

\* The probe request of an expiry: the single day fetch_end, optionType=CE
ProbeRequest(e) ==
  [kind |-> "probe", expiry_str |-> e.expiry_str, year |-> e.year,
   from |-> Strftime(FetchEnd(e.expiry_date)),
   to |-> Strftime(FetchEnd(e.expiry_date)), option_type |-> "CE"]

\* A data request of an expiry: from_date .. to_date, one strike, one type
DataRequest(e, strike, option_type) ==
  [kind |-> "data", expiry_str |-> e.expiry_str, year |-> e.year,
   from |-> Strftime(FetchStart(e.expiry_date)),
   to |-> Strftime(FetchEnd(e.expiry_date)),
   option_type |-> option_type, strike |-> strike]

\* The symbol's fetch ends: the log entries are written, the count is
\* returned to the driver, which appends it to results and goes on to the
\* next symbol or, after the last one, calls get_stats and returns. (error
\* is the exception caught at line 248, Null on the other paths.) What the
\* fetch found relevant and the expiries it issued requests for stay on
\* view until the next symbol starts.
Conclude(status, records, error, relevant) ==
  /\ fetch_log' = fetch_log \o SymbolLogEntries(stocks[i], status, records, error)
  /\ results' = Append(results, [symbol |-> stocks[i], records |-> records])
  /\ history' = Append(history, [raised |-> error, fetched |-> fetchedRows'])
  /\ i' = i + 1
  /\ bpc' = IF i = Len(stocks) THEN "done" ELSE "loop"
  /\ stats' = IF i = Len(stocks) THEN GetStats(option_data') ELSE stats
  /\ spc' = "idle"
  /\ yearIdx' = 0
  /\ all_expiries' = <<>>
  /\ relevant_expiries' = relevant
  /\ eIdx' = 0
  /\ atm_strikes' = <<>>
  /\ sIdx' = 0
  /\ oIdx' = 0
  /\ expiry_records' = 0
  /\ total_records' = 0
  /\ reqExpiries' = reqExpiries
  /\ reqStrikes' = {}
  /\ dataReqs' = 0
  /\ probed' = NoProbe
  /\ lastReq' = NoRequest

\* The exception leaves fetch_stock_historical and the driver's loop: the
\* run ends without a result list.
Abort(exc) ==
  /\ bpc' = "aborted"
  /\ history' = Append(history, [raised |-> exc, fetched |-> fetchedRows'])
  /\ UNCHANGED <<fetch_log, results, i, stats>>
  /\ spc' = "idle"
  /\ yearIdx' = 0
  /\ all_expiries' = <<>>
  /\ UNCHANGED relevant_expiries
  /\ eIdx' = 0
  /\ atm_strikes' = <<>>
  /\ sIdx' = 0
  /\ oIdx' = 0
  /\ expiry_records' = 0
  /\ total_records' = 0
  /\ UNCHANGED reqExpiries
  /\ reqStrikes' = {}
  /\ dataReqs' = 0
  /\ probed' = NoProbe
  /\ lastReq' = NoRequest

\* The exceptions of the model; all of them derive from Exception.
ExceptionClasses ==
  {"ClientError", "TimeoutError", "ValueError", "TypeError",
   "ValueError(strptime)", "TypeError(NoneType)"}

\* Faulty variant: except (aiohttp.ClientError, asyncio.TimeoutError) in place of
\* except Exception.
Caught_TransportOnly(exc) == exc \in RetriedExceptions

\* except Exception as e (line 248)
Caught(exc) == exc \in ExceptionClasses

\* Faulty variant: the ERROR entry and the return value carry the rows counted
\* so far.
Fail_CreditsPartial(exc) ==
  IF Caught(exc)
    THEN Conclude("ERROR", total_records + expiry_records, exc, relevant_expiries)
    ELSE Abort(exc)

\* An exception is raised inside the try block of fetch_stock_historical:
\* log_fetch('historical', symbol, 'ERROR', 0, str(e)); return 0
Fail(exc) ==
  IF Caught(exc)
    THEN Conclude("ERROR", 0, exc, relevant_expiries)
    ELSE Abort(exc)

\* The probe of the expiry at position k is sent.
IssueProbe(k, all, relevant, total) ==
  /\ spc' = "probe"
  /\ all_expiries' = all
  /\ relevant_expiries' = relevant
  /\ eIdx' = k
  /\ total_records' = total
  /\ atm_strikes' = <<>>
  /\ sIdx' = 0
  /\ oIdx' = 0
  /\ expiry_records' = 0
  /\ reqExpiries' = reqExpiries \cup {k}
  /\ reqStrikes' = {}
  /\ dataReqs' = 0
  /\ probed' = NoProbe
  /\ lastReq' = ProbeRequest(relevant[k])
  /\ UNCHANGED <<yearIdx, fetch_log, stats, batchVars>>

\* The loop over relevant_expiries[:3] goes on after position k: the next
\* expiry with a date range is probed; after the last one the symbol ends
\* with log_fetch('historical', symbol, 'SUCCESS', total_records).
ToNextExpiry(k, all, relevant, total) ==
  LET j == NextExpiry(relevant, k) IN
    IF j = 0
      THEN Conclude("SUCCESS", total, Null, relevant)
      ELSE IssueProbe(j, all, relevant, total)

\* The data request for atm[s], OptionTypes[o] is sent.
IssueData(atm, s, o, exprec, body) ==
  /\ spc' = "data"
  /\ atm_strikes' = atm
  /\ sIdx' = s
  /\ oIdx' = o
  /\ expiry_records' = exprec
  /\ reqStrikes' = (IF s = 1 /\ o = 1 THEN {} ELSE reqStrikes) \cup {atm[s]}
  /\ dataReqs' = (IF s = 1 /\ o = 1 THEN 0 ELSE dataReqs) + 1
  /\ probed' = body
  /\ lastReq' = DataRequest(relevant_expiries[eIdx], atm[s], OptionTypes[o])
  /\ UNCHANGED <<yearIdx, all_expiries, relevant_expiries, eIdx, total_records,
                 reqExpiries, fetch_log, stats, batchVars>>

\* The driver's loop calls the fetch of stocks[i]; the first expiry-list
\* request is sent.
StartSymbol ==
  /\ bpc = "loop"
  /\ i <= Len(stocks)
  /\ bpc' = "symbol"
  /\ spc' = "years"
  /\ yearIdx' = 1
  /\ lastReq' = ExpiriesRequest(1)
  /\ relevant_expiries' = <<>>
  /\ reqExpiries' = {}
  /\ UNCHANGED <<all_expiries, eIdx, atm_strikes, sIdx, oIdx, expiry_records,
                 total_records>>
  /\ fetchedRows' = 0
  /\ UNCHANGED <<reqStrikes, dataReqs, probed>>
  /\ UNCHANGED <<i, results, history, worldVars, ctorVars, fetchVars, storeVars>>

\* The expiry-list request of a year is answered. After the last year:
\* the "not all_expiries" test, the date filter, and the first probe.
ExpiryListAnswer ==
  /\ bpc = "symbol"
  /\ spc = "years"
  /\ fetchedRows' = fetchedRows
  /\ UNCHANGED <<option_data, savedOnce, lastOp, worldVars, ctorVars, fetchVars>>
  /\ \E res \in FetchUrlResults :
       IF res.kind = "raise"
         THEN Fail(res.exc)
         ELSE \E body \in (IF res.value = "JSON" THEN listings ELSE {NoListing}) :
           LET all == IF body.has
                        THEN all_expiries \o
                             [k \in 1..Len(body.dts) |->
                                [expiry_str |-> body.dts[k], year |-> YearAt(yearIdx)]]
                        ELSE all_expiries
           IN IF yearIdx < NumYears
                THEN /\ yearIdx' = yearIdx + 1
                     /\ all_expiries' = all
                     /\ lastReq' = ExpiriesRequest(yearIdx + 1)
                     /\ UNCHANGED <<spc, relevant_expiries, eIdx, atm_strikes,
                                    sIdx, oIdx, expiry_records, total_records>>
                     /\ UNCHANGED <<reqExpiries, reqStrikes, dataReqs, probed>>
                     /\ UNCHANGED <<fetch_log, stats, batchVars>>
              ELSE IF all = <<>>
                THEN Conclude("NO_EXPIRIES", 0, Null, <<>>)
              ELSE IF ParseErrorEscapes(all)
                THEN Fail("ValueError(strptime)")
              ELSE ToNextExpiry(0, all, FilterExpiries(all, StartDate), 0)

\* The probe is answered: no data skips the expiry; otherwise the strikes
\* are chosen and the first data request is sent.
ProbeAnswer ==
  /\ bpc = "symbol"
  /\ spc = "probe"
  /\ fetchedRows' = fetchedRows
  /\ UNCHANGED <<option_data, savedOnce, lastOp, worldVars, ctorVars, fetchVars>>
  /\ \E res \in FetchUrlResults :
       IF res.kind = "raise"
         THEN Fail(res.exc)
         ELSE \E body \in (IF res.value = "JSON" THEN probes ELSE {NoData}) :
           IF body.data = "missing"
             THEN ToNextExpiry(eIdx, all_expiries, relevant_expiries, total_records)
           ELSE IF ~ body.numeric
             THEN Fail("TypeError")
           ELSE LET atm == AtmStrikes(body.strikes, body.underlying) IN
                  IF atm = <<>>
                    THEN ToNextExpiry(eIdx, all_expiries, relevant_expiries,
                                      total_records)
                    ELSE IssueData(atm, 1, 1, 0, body)

\* Faulty variant: len(data['data']) is taken without the test of line 235: a
\* request that returned None raises.
PageMissingRaises_NoTest(body) == body.data = "missing"

\* if data and 'data' in data and data['data']: a page without rows is
\* passed over, it raises nothing.
PageMissingRaises(body) == FALSE

\* A data request is answered: a page with rows is saved and counted; then
\* the next option type, strike or expiry follows.
DataAnswer ==
  /\ bpc = "symbol"
  /\ spc = "data"
  /\ UNCHANGED <<savedOnce, lastOp, worldVars, ctorVars, fetchVars>>
  /\ \E res \in FetchUrlResults :
       IF res.kind = "raise"
         THEN /\ fetchedRows' = fetchedRows
              /\ UNCHANGED option_data
              /\ Fail(res.exc)
         ELSE \E body \in (IF res.value = "JSON" THEN pages ELSE {NoData}) :
           IF PageMissingRaises(body)
             THEN /\ fetchedRows' = fetchedRows
                  /\ UNCHANGED option_data
                  /\ Fail("TypeError(NoneType)")
           ELSE
             LET rows == IF body.data = "rows" THEN body.rows ELSE <<>>
                 exprec == expiry_records + Len(rows)
             IN /\ fetchedRows' = fetchedRows + Len(rows)
                /\ option_data' = SaveRows(option_data, rows, stocks[i])
                /\ IF oIdx < Len(OptionTypes)
                     THEN IssueData(atm_strikes, sIdx, oIdx + 1, exprec, probed)
                   ELSE IF sIdx < Len(atm_strikes)
                     THEN IssueData(atm_strikes, sIdx + 1, 1, exprec, probed)
                   ELSE ToNextExpiry(eIdx, all_expiries, relevant_expiries,
                                     total_records + exprec)

NextOrch ==
  \/ StartSymbol
  \/ ExpiryListAnswer
  \/ ProbeAnswer
  \/ DataAnswer

\* A batch driver has been called with a symbol list; the fetcher is fresh.
InitOrch(stockList, daysChoices, L, P, G) ==
  /\ \/ run_type = "historical" /\ days \in daysChoices
     \/ run_type = "daily" /\ days = DailyDays
  /\ stocks = stockList
  /\ now \in {Dt(0, 0), Dt(0, 1)}
  /\ listings = L
  /\ probes = P
  /\ pages = G
  /\ bpc = "loop"
  /\ i = 1
  /\ results = <<>>
  /\ history = <<>>
  /\ SymbolIdle
  /\ FetchIdle
  /\ StoreEmpty
  /\ Constructed

\* A probe body with rows: the set of their strikes and the underlying
\* value of the first row (numeric: the values are numbers).
ProbeBody(strikes, underlying, numeric) ==
  [data |-> "rows", strikes |-> strikes, underlying |-> underlying,
   numeric |-> numeric]

PageBody(rows) == [data |-> "rows", rows |-> rows]

ListingBody(dts) == [has |-> TRUE, dts |-> dts]

TwoRows ==
  << Item(StrikeInt(100), "01-DEC-2025", 1), Item(StrikeInt(100), "02-DEC-2025", 1) >>

\* ---- a batch over three symbols
BatchStocks == <<"A", "B", "C">>

BatchListings == { ListingBody(<<ExpStr(-1)>>), ListingBody(<<>>) }

BatchProbes == { ProbeBody({100}, 100, TRUE), ProbeBody({100}, 100, FALSE), NoData }

BatchPages == { PageBody(TwoRows), NoData }

InitBatch ==
  InitOrch(BatchStocks, {DefaultDays}, BatchListings, BatchProbes, BatchPages)

SpecBatch == InitBatch /\ [][NextOrch]_vars

\* The audit entries of a symbol, as positions in fetch_log
EntriesOf(symbol) == {n \in 1..Len(fetch_log) : fetch_log[n].symbol = symbol}

\* The symbols whose fetch the driver has started and seen end
Finished == 1..Len(results)

\* C5: every symbol-level fetch attempt a batch driver has made (one call of
\* fetch_stock_historical in a historical run, of fetch_daily_data in a
\* daily run) has exactly one audit entry, whatever its outcome, and the
\* entry is appended only after the symbol's last request: a symbol whose
\* fetch has not ended has none.
C5_OneEntryPerAttempt ==
  /\ \A k \in Finished : Cardinality(EntriesOf(stocks[k])) = 1
  /\ \A k \in 1..Len(stocks) : k \notin Finished => EntriesOf(stocks[k]) = {}

\* C5, as far as the historical driver goes (the part the code keeps)
C5_HistoricalRunOneEntry == run_type = "historical" => C5_OneEntryPerAttempt

\* C6: when the batch over A, B, C has ended, a symbol whose fetch raised
\* has count 0 in the result list and its audit entry is ERROR with
\* records_fetched = 0, while every other symbol has its entry in the
\* result list, in order, with the number of rows its requests returned.
C6_FailureIsolation ==
  bpc = "done" =>
    /\ Len(results) = Len(stocks)
    /\ \A k \in 1..Len(stocks) :
         /\ results[k].symbol = stocks[k]
         /\ IF history[k].raised # Null
              THEN /\ results[k].records = 0
                   /\ \A n \in EntriesOf(stocks[k]) :
                        /\ fetch_log[n].status = "ERROR"
                        /\ fetch_log[n].records_fetched = 0
              ELSE results[k].records = history[k].fetched

\* The enumerations name the values the code writes: run type HISTORICAL
\* is 'historical', DAILY is 'daily'; status NO_DATA is 'NO_EXPIRIES', the
\* status of the fetch that found nothing to fetch (line 165).
RunTypeName(entry) ==
  IF entry.run_type = "historical" THEN "HISTORICAL"
  ELSE IF entry.run_type = "daily" THEN "DAILY"
  ELSE entry.run_type

StatusName(entry) ==
  IF entry.status = "NO_EXPIRIES" THEN "NO_DATA" ELSE entry.status

C10_DailyEntries ==
  run_type = "daily" =>
    \A k \in Finished : \A n \in EntriesOf(stocks[k]) :
      /\ fetch_log[n].run_type = "daily"
      /\ fetch_log[n].records_fetched = results[k].records
      /\ history[k].raised # Null <=> fetch_log[n].status = "ERROR"

\* ---- batches over every symbol list of up to two symbols, run to the end
LiveStockLists == { <<>>, <<"A">>, <<"A", "B">>, <<"A", "A">> }

\* for i, symbol in enumerate(stocks) over an empty list: the driver goes
\* straight to get_stats and returns the empty result list.
DriverReturnsEmpty ==
  /\ bpc = "loop"
  /\ stocks = <<>>
  /\ bpc' = "done"
  /\ stats' = GetStats(option_data)
  /\ UNCHANGED <<option_data, fetch_log, savedOnce, lastOp>>
  /\ UNCHANGED <<i, results, history, worldVars, symVars, obsVars, ctorVars,
                 fetchVars>>

NextDriver ==
  \/ NextOrch
  \/ DriverReturnsEmpty

InitBatchLive ==
  \E stockList \in LiveStockLists :
    InitOrch(stockList, {DefaultDays}, BatchListings, BatchProbes, BatchPages)

\* The event loop runs the driver's coroutine whenever it can go on, and
\* every await ends: a request within timeout=30, at most 3 attempts with
\* a backoff wait between them, the sleeps after their delay.
SpecBatchLive == InitBatchLive /\ [][NextDriver]_vars /\ WF_vars(NextDriver)

LifecycleLists ==
  { <<Item(StrikeInt(100), "01-DEC-2025", 2), Item(StrikeInt(100), NovTimestamp, 2)>> }

LifecycleEntries == { LogRow("historical", "A", "SUCCESS", 2, Null) }

NextLifecycle ==
  \/ NextOrch
  \/ \E data_list \in LifecycleLists : SaveOptionData(data_list, "A")
  \/ \E entry \in LifecycleEntries :
       Len(fetch_log) < MaxLogLen /\ LogFetch(entry)
  \/ GetStatsCall

InitLifecycle ==
  InitOrch(<<"A">>, {DefaultDays}, {ListingBody(<<ExpStr(-1)>>)},
           {ProbeBody({100}, 100, TRUE)}, BatchPages)

SpecLifecycle == InitLifecycle /\ [][NextLifecycle]_vars

\* C13: no step of any operation removes a stored quote row or changes one
\* of its values (a later row with the same natural key is ignored), and
\* no step removes or changes an audit entry: fetch_log only grows at its
\* end.
C13_RowsAndEntriesKept ==
  [][ /\ \A q \in option_data : q \in option_data'
      /\ Len(fetch_log') >= Len(fetch_log)
      /\ SubSeq(fetch_log', 1, Len(fetch_log)) = fetch_log ]_vars

C13_Witness ==
  /\ lastOp = "save"
  /\ \E q \in option_data :
       /\ q.row.timestamp = "01-DEC-2025"
       /\ q.row.rest = 1
       /\ q.id < Cardinality(option_data)
  /\ \E q \in option_data : q.row.timestamp = NovTimestamp /\ q.row.rest = 2
  /\ Len(fetch_log) >= 2
  /\ stats.total_records >= 1

\* ---- one symbol, with listings that hold old, unparseable, past and
\* future expiries
SymbolListings ==
  { NoListing,
    ListingBody(<<>>),
    ListingBody(<<BadExpStr, ExpStr(-200)>>),
    ListingBody(<<BadExpStr, ExpStr(-1), ExpStr(1)>>),
    ListingBody(<<ExpStr(30), ExpStr(-2), ExpStr(100)>>),
    ListingBody(<<ExpStr(100), ExpStr(1)>>) }

SymbolProbes ==
  { NoData, ProbeBody({95, 100, 120}, 100, TRUE), ProbeBody({100, 120}, 0, TRUE),
    ProbeBody({100}, 100, FALSE) }

InitSymbol ==
  InitOrch(<<"A">>, {DefaultDays}, SymbolListings, SymbolProbes, BatchPages)

SpecSymbol == InitSymbol /\ [][NextOrch]_vars

\* The expiry strings of a sequence of listing or filter entries
ExpiryStrs(seq) == [k \in 1..Len(seq) |-> seq[k].expiry_str]

\* C7: requests are issued for at most 3 expiries per symbol, every one of
\* them parses and satisfies expiryDate >= now - lookbackDays, and a string
\* that does not parse is passed over without ending the symbol's fetch:
\* the expiries that go on are the listed ones that parse and are in range.
C7_ExpiryBound ==
  /\ Cardinality(reqExpiries) <= 3
  /\ \A k \in reqExpiries :
       /\ k <= Len(relevant_expiries)
       /\ relevant_expiries[k].expiry_str.ok
       /\ DtLE(Dt(now.day - CallDays, now.tod),
               Dt(relevant_expiries[k].expiry_str.day, 0))
  /\ lastReq.kind \in {"probe", "data"} =>
       \E k \in reqExpiries : lastReq.expiry_str = relevant_expiries[k].expiry_str
  /\ spc \in {"probe", "data"} =>
       ExpiryStrs(relevant_expiries) =
         SelectSeq(ExpiryStrs(all_expiries),
                   LAMBDA e : e.ok /\ DtLE(Dt(now.day - CallDays, now.tod),
                                           Dt(e.day, 0)))
  /\ \A k \in 1..Len(history) : history[k].raised # "ValueError(strptime)"

C7_Witness ==
  /\ Len(relevant_expiries) > 3
  /\ Cardinality(reqExpiries) = 3
  /\ \E k \in 1..Len(all_expiries) : ~ all_expiries[k].expiry_str.ok
  /\ \E k \in 1..Len(all_expiries) :
       /\ all_expiries[k].expiry_str.ok
       /\ all_expiries[k].expiry_str \notin {relevant_expiries[j].expiry_str :
                                               j \in 1..Len(relevant_expiries)}

\* The first 3 of the expiries that passed the filter, by position
KeptPositions ==
  1..(IF Len(relevant_expiries) < 3 THEN Len(relevant_expiries) ELSE 3)

\* The calendar day of the expiry at a position of relevant_expiries
ExpiryDay(k) == relevant_expiries[k].expiry_str.day

\* The fetch that ended last: its index in results, and whether it raised
LastFinished == Len(results)

FetchJustEnded == spc = "idle" /\ Len(results) >= 1 /\ Len(history) = Len(results)

\* The entries fetch_stock_historical wrote for a symbol
HistoricalEntriesOf(symbol) ==
  {n \in EntriesOf(symbol) : fetch_log[n].run_type = "historical"}

\* C14: the expiries requests are issued for are the nearest ones in sorted
\* date order, whatever the order and the repetition of the listings: their
\* dates strictly increase along the processing order, and they are as many
\* as there are distinct qualifying dates, up to 3.
C14_NearestInSortedOrder ==
  spc \in {"probe", "data"} =>
    LET qualifying == {ExpiryDay(k) : k \in 1..Len(relevant_expiries)} IN
      /\ \A a, b \in KeptPositions : a < b => ExpiryDay(a) < ExpiryDay(b)
      /\ Cardinality({ExpiryDay(k) : k \in KeptPositions}) =
           (IF Cardinality(qualifying) < 3 THEN Cardinality(qualifying) ELSE 3)
      /\ \A k \in KeptPositions : \A d \in qualifying :
           d < ExpiryDay(k) => d \in {ExpiryDay(j) : j \in KeptPositions}

\* C15: a fetch that ended without an exception and found no qualifying
\* expiry has written a "no expiries" entry with 0 records, has issued no
\* probe or data request, and has returned 0.
C15_NoExpiriesReported ==
  (FetchJustEnded /\ history[LastFinished].raised = Null
     /\ relevant_expiries = <<>>) =>
    /\ HistoricalEntriesOf(stocks[LastFinished]) # {}
    /\ \A n \in HistoricalEntriesOf(stocks[LastFinished]) :
         /\ fetch_log[n].status = "NO_EXPIRIES"
         /\ fetch_log[n].records_fetched = 0
    /\ reqExpiries = {}
    /\ results[LastFinished].records = 0

\* now - lookbackDays
LookbackStart == Dt(now.day - CallDays, now.tod)

\* windowEnd = min(expiryDate, now)
WindowEnd(day) == IF DtLE(Dt(day, 0), now) THEN Dt(day, 0) ELSE now

\* windowStart = max(expiryDate - 90 days, now - lookbackDays)
WindowStart(day) ==
  IF DtLE(LookbackStart, Dt(day - 90, 0)) THEN Dt(day - 90, 0) ELSE LookbackStart

\* the window is not degenerate: windowStart < windowEnd
WindowOpen(day) ==
  DtLE(WindowStart(day), WindowEnd(day)) /\ WindowStart(day) # WindowEnd(day)

\* C16: a kept expiry gets requests exactly when windowStart < windowEnd;
\* its probe asks for the single day windowEnd with option type CE, each of
\* its data requests for the days windowStart .. windowEnd; no request asks
\* for a day after now or before now - lookbackDays.
C16_FetchWindow ==
  /\ lastReq.kind \in {"probe", "data"} =>
       /\ WindowOpen(lastReq.expiry_str.day)
       /\ lastReq.to = WindowEnd(lastReq.expiry_str.day).day
       /\ lastReq.kind = "probe" =>
            lastReq.from = lastReq.to /\ lastReq.option_type = "CE"
       /\ lastReq.kind = "data" =>
            lastReq.from = WindowStart(lastReq.expiry_str.day).day
       /\ lastReq.from <= lastReq.to
       /\ lastReq.to <= now.day
       /\ lastReq.from >= now.day - CallDays
  /\ spc \in {"probe", "data"} =>
       \A k \in 1..eIdx : k \in reqExpiries <=> WindowOpen(ExpiryDay(k))
  /\ (FetchJustEnded /\ history[LastFinished].raised = Null) =>
       \A k \in KeptPositions : k \in reqExpiries <=> WindowOpen(ExpiryDay(k))

C16_Witness ==
  /\ lastReq.kind = "data"
  /\ lastReq.from = now.day - CallDays
  /\ lastReq.to = now.day
  /\ lastReq.expiry_str.day > now.day
  /\ eIdx = 2
  /\ reqExpiries = {2}

\* A step ends the symbol's fetch with an exception
RaisesNow ==
  /\ Len(history') = Len(history) + 1
  /\ history'[Len(history')].raised # Null

\* After the expiry at position eIdx, the next kept expiry with a window
\* is probed; if there is none, the fetch ends with SUCCESS.
GoesToNextExpiry ==
  LET later == {k \in KeptPositions : k > eIdx /\ WindowOpen(ExpiryDay(k))} IN
    IF later = {}
      THEN /\ spc' = "idle"
           /\ Len(fetch_log') > Len(fetch_log)
           /\ fetch_log'[Len(fetch_log) + 1].status = "SUCCESS"
      ELSE /\ spc' = "probe"
           /\ \A k \in later : eIdx' <= k
           /\ eIdx' \in later
           /\ lastReq'.kind = "probe"

\* C17: an answer without rows ends nothing: after a probe answer that
\* raises nothing, either the expiry's first data request or the next
\* expiry follows; after a data answer that raises nothing, the next option
\* type, strike or expiry follows; only a failed request (transport error
\* after the retries, unreadable body) ends the fetch from a data request;
\* and a fetch that ended without exception after issuing requests has a
\* SUCCESS entry whose count is the number of rows its pages held.
C17_EmptyAnswersSkipped ==
  /\ [][ (spc = "probe" /\ ~ RaisesNow) =>
            \/ /\ spc' = "data"
               /\ eIdx' = eIdx
               /\ sIdx' = 1
               /\ oIdx' = 1
            \/ GoesToNextExpiry ]_vars
  /\ [][ (spc = "data" /\ ~ RaisesNow) =>
            IF oIdx < 2
              THEN spc' = "data" /\ eIdx' = eIdx /\ sIdx' = sIdx /\ oIdx' = oIdx + 1
            ELSE IF sIdx < Len(atm_strikes)
              THEN spc' = "data" /\ eIdx' = eIdx /\ sIdx' = sIdx + 1 /\ oIdx' = 1
            ELSE GoesToNextExpiry ]_vars
  /\ [][ (spc = "data" /\ RaisesNow) =>
            history'[Len(history')].raised
              \in {"ClientError", "TimeoutError", "ValueError"} ]_vars
  /\ []( (FetchJustEnded /\ history[LastFinished].raised = Null
            /\ reqExpiries # {}) =>
           /\ results[LastFinished].records = history[LastFinished].fetched
           /\ HistoricalEntriesOf(stocks[LastFinished]) # {}
           /\ \A n \in HistoricalEntriesOf(stocks[LastFinished]) :
                /\ fetch_log[n].status = "SUCCESS"
                /\ fetch_log[n].records_fetched = history[LastFinished].fetched )

C17_Witness ==
  /\ FetchJustEnded
  /\ history[LastFinished].raised = Null
  /\ Cardinality(reqExpiries) = 3
  /\ results[LastFinished].records = 2
  /\ fetch_log[1].status = "SUCCESS"

\* C18: a fetch that ended with an exception has an ERROR entry with 0
\* records and has returned 0, however many rows its pages had written;
\* the step that ends it leaves the stored rows as they are.
C18_ErrorKeepsRows ==
  /\ []( (FetchJustEnded /\ history[LastFinished].raised # Null) =>
           /\ results[LastFinished].records = 0
           /\ HistoricalEntriesOf(stocks[LastFinished]) # {}
           /\ \A n \in HistoricalEntriesOf(stocks[LastFinished]) :
                /\ fetch_log[n].status = "ERROR"
                /\ fetch_log[n].records_fetched = 0
                /\ fetch_log[n].error_message = history[LastFinished].raised )
  /\ [][ RaisesNow =>
            /\ option_data' = option_data
            /\ Cardinality(option_data) <= history'[Len(history')].fetched ]_vars
  /\ [][ \A q \in option_data : q \in option_data' ]_vars

C18_Witness ==
  /\ FetchJustEnded
  /\ history[LastFinished].raised = "ClientError"
  /\ history[LastFinished].fetched = 4
  /\ Cardinality(option_data) = 2
  /\ results[LastFinished].records = 0

\* ---- one symbol with one listed expiry, probes over a ladder of strikes
StrikeAt(k) == 86 + 2 * k

Ladders ==
  { {StrikeAt(k) : k \in a..b} : a \in 1..NumStrikes, b \in 1..NumStrikes } \ {{}}

StrikeProbes == { ProbeBody(L, u, TRUE) : L \in Ladders, u \in {0, 100} }

InitStrikes ==
  InitOrch(<<"A">>, {DefaultDays}, {ListingBody(<<ExpStr(-1)>>)}, StrikeProbes,
           {NoData})

SpecStrikes == InitStrikes /\ [][NextOrch]_vars

\* C8: the strikes data requests are issued for number at most 10 per
\* expiry (at most 20 data requests); with a positive underlying value
\* every one of them lies within 0.9 and 1.1 times that value; otherwise
\* they are taken from all the discovered strikes (the lowest 10 of them).
C8_StrikeBound ==
  /\ Cardinality(reqStrikes) <= 10
  /\ dataReqs <= 20
  /\ spc = "data" =>
       /\ reqStrikes \subseteq probed.strikes
       /\ probed.underlying > 0 =>
            \A st \in reqStrikes :
              /\ 9 * probed.underlying <= 10 * st
              /\ 10 * st <= 11 * probed.underlying
       /\ (probed.underlying <= 0 /\ sIdx = Len(atm_strikes)) =>
            /\ Cardinality(reqStrikes) =
                 (IF Cardinality(probed.strikes) < 10
                    THEN Cardinality(probed.strikes) ELSE 10)
            /\ \A st \in reqStrikes : \A other \in probed.strikes \ reqStrikes :
                 st < other

C8_Witness ==
  /\ dataReqs = 20
  /\ probed.underlying > 0
  /\ Cardinality({st \in probed.strikes :
                    9 * probed.underlying <= 10 * st
                      /\ 10 * st <= 11 * probed.underlying}) > 10
  /\ \E st \in probed.strikes : 10 * st < 9 * probed.underlying

----------------------------------------------------------------------------
\* The construction of the fetcher: __init__ and load_config

\* What can stand at config.json: nothing, or a JSON object with or
\* without the keys 'stocks' and 'years'
ConfigFiles ==
  {NoConfigFile} \cup
    { [present |-> TRUE, has_stocks |-> a, has_years |-> b] : a, b \in BOOLEAN }

\* Who constructs: the two drivers call NSEOptionsFetcher(), other code may
\* pass a db_path of its own
Constructors == {"direct", "run_historical_fetch", "run_daily_fetch"}

\* db_path="data/nse_options.db"
DefaultDbPath == "data/nse_options.db"

DbPaths == {DefaultDbPath, "nse_options.db"}

\* os.path.dirname(db_path)
Dirname(db_path) == IF db_path = DefaultDbPath THEN "data" ELSE ""

\* Whether the local name config is bound when line 51 reads it: its only
\* assignment is at line 56, further down in load_config.
ConfigBoundAtLine51 == FALSE

\* load_config from line 54 on, then _init_database and lines 33-34: the
\* config file, if there is one, replaces the symbol list; all attributes
\* are in place.
RestOfInit(c, years) ==
  [c EXCEPT !.pc = "constructed",
            !.years_to_check = years,
            !.nifty50_stocks = IF c.config.present /\ c.config.has_stocks
                                 THEN "config" ELSE c.nifty50_stocks,
            !.attrs = {Attributes[k] : k \in 1..Len(Attributes)}]

\* The constructor is called: nothing is set yet.
InitCtor ==
  /\ \E caller \in Constructors, db_path \in DbPaths, config \in ConfigFiles,
        dir_exists \in BOOLEAN :
       /\ caller # "direct" => db_path = DefaultDbPath
       /\ ctor = CtorState("new", caller, db_path, config, dir_exists, {},
                           "unset", <<>>, Null)
  /\ FetchIdle
  /\ StoreEmpty
  /\ OrchIdle

\* self.db_path = db_path; os.makedirs(os.path.dirname(db_path),
\* exist_ok=True): an empty dirname raises FileNotFoundError.
MakeDirs ==
  /\ ctor.pc = "new"
  /\ IF Dirname(ctor.db_path) = ""
       THEN ctor' = [ctor EXCEPT !.pc = "raised", !.attrs = {"db_path"},
                                 !.raised = "FileNotFoundError"]
       ELSE ctor' = [ctor EXCEPT !.pc = "headers", !.attrs = {"db_path"},
                                 !.dir_exists = TRUE]
  /\ UNCHANGED <<fetchVars, storeVars, worldVars, batchVars, symVars, obsVars>>

\* self.headers = {...}
SetHeaders ==
  /\ ctor.pc = "headers"
  /\ ctor' = [ctor EXCEPT !.pc = "load_config", !.attrs = @ \cup {"headers"}]
  /\ UNCHANGED <<fetchVars, storeVars, worldVars, batchVars, symVars, obsVars>>

\* load_config, lines 39-50: self.nifty50_stocks = [...]
LoadConfigDefaults ==
  /\ ctor.pc = "load_config"
  /\ ctor' = [ctor EXCEPT !.pc = "years", !.attrs = @ \cup {"nifty50_stocks"},
                          !.nifty50_stocks = "default"]
  /\ UNCHANGED <<fetchVars, storeVars, worldVars, batchVars, symVars, obsVars>>

\* load_config, line 51: self.years_to_check = config.get('years', [...]).
\* Reading the unbound local raises UnboundLocalError; the rest of the
\* construction follows only if the name is bound.
LoadConfigYears ==
  /\ ctor.pc = "years"
  /\ IF ConfigBoundAtLine51
       THEN ctor' = RestOfInit(ctor, DefaultYears)
       ELSE ctor' = [ctor EXCEPT !.pc = "raised", !.raised = "UnboundLocalError"]
  /\ UNCHANGED <<fetchVars, storeVars, worldVars, batchVars, symVars, obsVars>>

\* fetcher = NSEOptionsFetcher() in a driver: the exception leaves the
\* driver before its loop starts.
DriverRaises ==
  /\ ctor.pc = "raised"
  /\ ctor.caller # "direct"
  /\ ctor' = [ctor EXCEPT !.pc = "driver_raised"]
  /\ UNCHANGED <<fetchVars, storeVars, worldVars, batchVars, symVars, obsVars>>

NextCtor ==
  \/ MakeDirs
  \/ SetHeaders
  \/ LoadConfigDefaults
  \/ LoadConfigYears
  \/ DriverRaises

SpecInit == InitCtor /\ [][NextCtor]_vars

\* The construction has ended, one way or the other
CtorEnded == ctor.pc \in {"constructed", "raised", "driver_raised"}

\* C19: a construction without a config file (default db_path) ends with
\* the object constructed: no exception, every attribute set, the symbol
\* list the 50-symbol default and the years the default years.
C19_ConstructsWithDefaults ==
  (CtorEnded /\ ~ ctor.config.present /\ ctor.db_path = "data/nse_options.db") =>
    /\ ctor.pc = "constructed"
    /\ ctor.raised = Null
    /\ ctor.attrs = {"db_path", "headers", "nifty50_stocks", "years_to_check",
                     "session", "semaphore"}
    /\ Len(StockList(ctor.nifty50_stocks)) = 50
    /\ StockList(ctor.nifty50_stocks) = Nifty50
    /\ ctor.years_to_check = <<2022, 2023, 2024, 2025>>

\* What the code does instead: every construction ends with an exception.
C19_ConstructionAlwaysRaises ==
  CtorEnded => ctor.pc # "constructed" /\ ctor.raised # Null

====
